---- MODULE Spec2Model ----
(***************************************************************************)
(* A model of script.py: an interactive session that loads one CSV file    *)
(* into a pandas DataFrame and then loops over free-text prompts (info,    *)
(* summary, missing, filter, save, plot, exit).                            *)
(*                                                                         *)
(* State is the program's position (which prompt is showing), the          *)
(* DataFrame the session holds, the filter column remembered between the    *)
(* two filter prompts, and what the last operation emitted (log lines,     *)
(* message boxes, console prints, chart windows, the file it wrote).       *)
(* Three history variables (loaded, prev, last) record the table as        *)
(* loaded, the table before the last step and the last input read.         *)
(***************************************************************************)
EXTENDS Integers, Sequences, FiniteSets, TLC

VARIABLES pc, df, column, out, written, loaded, prev, last

vars == <<pc, df, column, out, written, loaded, prev, last>>

(***************************************************************************)
(* Bounds of the model.                                                    *)
(***************************************************************************)
\* Largest number of data rows in an input file.
MaxRows == 2

\* Header rows of the input files.
Headers == {<<"a">>, <<"a", "b">>}

\* Texts a data field of an input file can hold.
FileTexts == {"", "1", "x"}

\* Strings the user types at the fill-value and filter-value prompts.
TypedValues == {"", "1", "x"}

\* Strings the user types at the filter-column prompt.
TypedColumns == {"a", "b", "zz"}

(***************************************************************************)
(* Optional values: askstring and the file dialogs return a string or      *)
(* nothing (None, or the empty path); a DataFrame variable holds a frame   *)
(* or None.                                                                *)
(***************************************************************************)
None == <<>>

Some(v) == <<v>>

Range(s) == {s[i] : i \in 1..Len(s)}

(***************************************************************************)
(* Cells.  A cell is the missing marker NaN, a number (with the dtype it   *)
(* is printed in: int64 or float64) or a string.                           *)
(***************************************************************************)
NaN == [nan |-> TRUE]

Num(n, f) == [num |-> n, flt |-> f]

Str(s) == [str |-> s]

isna(c) == "nan" \in DOMAIN c

IsNum(c) == "num" \in DOMAIN c

IsStr(c) == "str" \in DOMAIN c

(***************************************************************************)
(* CSV text of numbers: <<value, int text, float text>>.                   *)
(***************************************************************************)
NumTable == {<<1, "1", "1.0">>, <<2, "2", "2.0">>}

IntText(n) == (CHOOSE e \in NumTable : e[1] = n)[2]

FloatText(n) == (CHOOSE e \in NumTable : e[1] = n)[3]

IsNumText(s) == \E e \in NumTable : s = e[2] \/ s = e[3]

IsFloatText(s) == \E e \in NumTable : s = e[3]

ParseNum(s) == (CHOOSE e \in NumTable : s = e[2] \/ s = e[3])[1]

\* Field texts pandas.read_csv reads as missing (its default na_values).
NaValues == {"", "#N/A", "#N/A N/A", "#NA", "-1.#IND", "-1.#QNAN", "-NaN",
             "-nan", "1.#IND", "1.#QNAN", "<NA>", "N/A", "NA", "NULL", "NaN",
             "None", "n/a", "nan", "null"}

(***************************************************************************)
(* pd.read_csv: the first record is the header; a column whose non-missing *)
(* fields are all numbers is numeric (float64 if a field is missing or     *)
(* written with a decimal point, else int64), any other column holds the   *)
(* field texts as strings; rows are labelled 0..n-1.                       *)
(***************************************************************************)
ColumnTexts(file, j) == {file.records[i][j] : i \in 1..Len(file.records)}

NumericColumn(file, j) ==
  \A s \in ColumnTexts(file, j) : s \in NaValues \/ IsNumText(s)

FloatColumn(file, j) ==
  \E s \in ColumnTexts(file, j) : s \in NaValues \/ IsFloatText(s)

ParseField(file, j, s) ==
  IF s \in NaValues THEN NaN
  ELSE IF NumericColumn(file, j) THEN Num(ParseNum(s), FloatColumn(file, j))
  ELSE Str(s)

read_csv(file) ==
  [columns |-> file.header,
   rows |-> [i \in 1..Len(file.records) |->
               [idx |-> i - 1,
                cells |-> [j \in 1..Len(file.header) |->
                             ParseField(file, j, file.records[i][j])]]]]

(***************************************************************************)
(* df.to_csv(path, index=False): the header, then one record per row with  *)
(* a missing cell written as the empty field; no row labels.               *)
(***************************************************************************)
FormatCell(c) ==
  IF isna(c) THEN ""
  ELSE IF IsNum(c) THEN (IF c.flt THEN FloatText(c.num) ELSE IntText(c.num))
  ELSE c.str

to_csv(t) ==
  [readable |-> TRUE,
   header |-> t.columns,
   records |-> [i \in 1..Len(t.rows) |->
                  [j \in 1..Len(t.columns) |-> FormatCell(t.rows[i].cells[j])]]]

(***************************************************************************)
(* df.dropna(): keeps the rows without a missing cell, labels kept.        *)
(***************************************************************************)
\* Variant: dropna(how="all"), which keeps a row unless every cell is missing.
RowComplete_how_all(r) == \E j \in 1..Len(r.cells) : ~isna(r.cells[j])

RowComplete(r) == \A j \in 1..Len(r.cells) : ~isna(r.cells[j])

\* Variant: dropna followed by reset_index(drop=True), which relabels the rows.
dropna_reset_index(t) ==
  LET kept == SelectSeq(t.rows, RowComplete)
  IN  [t EXCEPT !.rows = [i \in 1..Len(kept) |-> [kept[i] EXCEPT !.idx = i - 1]]]

dropna(t) == [t EXCEPT !.rows = SelectSeq(t.rows, RowComplete)]

(***************************************************************************)
(* df.fillna(value): every missing cell becomes the string value, whatever *)
(* the column's dtype (a numeric column becomes an object column).         *)
(***************************************************************************)
\* Variant: fillna on the frame cast to str, which rewrites numbers as text.
FillCell_astype_str(c, value) ==
  IF isna(c) THEN Str(value) ELSE IF IsNum(c) THEN Str(FormatCell(c)) ELSE c

FillCell(c, value) == IF isna(c) THEN Str(value) ELSE c

fillna(t, value) ==
  [t EXCEPT !.rows =
     [i \in 1..Len(t.rows) |->
        [t.rows[i] EXCEPT !.cells =
           [j \in 1..Len(t.columns) |-> FillCell(t.rows[i].cells[j], value)]]]]

(***************************************************************************)
(* df[df[column] == value]: elementwise Python equality with the typed     *)
(* string (or None): only a string cell with the same text is equal; a     *)
(* number, a missing cell, or any cell against None is not.                *)
(***************************************************************************)
ColIndex(t, col) == CHOOSE j \in 1..Len(t.columns) : t.columns[j] = col

\* Variant: df[column].astype(str) == value, which compares the printed text.
CellEq_astype_str(c, value) == value # None /\ FormatCell(c) = value[1]

CellEq(c, value) == value # None /\ IsStr(c) /\ c.str = value[1]

\* Variant: df[column][df[column] == value], which keeps the one column.
boolean_index_column_only(t, col, value) ==
  LET j == ColIndex(t, col)
      Keep(r) == CellEq(r.cells[j], value)
      kept == SelectSeq(t.rows, Keep)
  IN  [columns |-> <<col>>,
       rows |-> [i \in 1..Len(kept) |-> [kept[i] EXCEPT !.cells = <<kept[i].cells[j]>>]]]

boolean_index(t, col, value) ==
  LET j == ColIndex(t, col)
      Keep(r) == CellEq(r.cells[j], value)
  IN  [t EXCEPT !.rows = SelectSeq(t.rows, Keep)]

(***************************************************************************)
(* Input files.  An unreadable file (empty, or not parseable) makes        *)
(* read_csv raise.                                                         *)
(***************************************************************************)
Records(h) ==
  UNION {[1..n -> [1..Len(h) -> FileTexts]] : n \in 0..MaxRows}

Files ==
  {[readable |-> TRUE, header |-> h, records |-> recs] :
     h \in Headers, recs \in UNION {Records(h2) : h2 \in Headers}}

WellFormed(f) == \A i \in 1..Len(f.records) : Len(f.records[i]) = Len(f.header)

Unreadable == [readable |-> FALSE, header |-> <<>>, records |-> <<>>]

InputFiles == {f \in Files : WellFormed(f)} \cup {Unreadable}

(***************************************************************************)
(* What the user can enter at each prompt: a string, or None when the      *)
(* dialog is cancelled.                                                    *)
(***************************************************************************)
OuterActions == {"info", "summary", "missing", "filter", "save", "plot", "exit"}

MissingActions == {"drop", "fill", "cancel"}

PlotTypes == {"simple", "pairplot", "histogram", "heatmap"}

PlotInputs == PlotTypes \cup {"exit"}

OuterTyped == {Some(s) : s \in OuterActions \cup {"bogus"}} \cup {None}

MissingTyped == {Some(s) : s \in MissingActions \cup {"exit", "bogus"}} \cup {None}

PlotTyped == {Some(s) : s \in PlotInputs \cup {"bogus"}} \cup {None}

ValueTyped == {Some(s) : s \in TypedValues} \cup {None}

ColumnTyped == {Some(s) : s \in TypedColumns} \cup {None}

(***************************************************************************)
(* Where control goes once the handler of an input read at a prompt has    *)
(* finished: the position of the next askstring call, or "done".           *)
(***************************************************************************)
\* Variant: exit at the plot-type prompt ends the session.
NextPc_plot_exit_ends(at, input) ==
  CASE at = "outer" /\ input = Some("missing") -> "missing"
    [] at = "outer" /\ input = Some("filter") -> "filter_col"
    [] at = "outer" /\ input = Some("plot") -> "plot"
    [] at = "outer" /\ input = Some("exit") -> "done"
    [] at = "outer" -> "outer"
    [] at = "missing" /\ input = Some("fill") -> "fill"
    [] at = "missing" -> "outer"
    [] at = "plot" /\ input = Some("exit") -> "done"
    [] at = "plot" -> "plot"
    [] OTHER -> "outer"

\* Variant: the else branch of the plot-type loop leaves the loop.
NextPc_plot_else_breaks(at, input) ==
  CASE at = "outer" /\ input = Some("missing") -> "missing"
    [] at = "outer" /\ input = Some("filter") -> "filter_col"
    [] at = "outer" /\ input = Some("plot") -> "plot"
    [] at = "outer" /\ input = Some("exit") -> "done"
    [] at = "outer" -> "outer"
    [] at = "missing" /\ input = Some("fill") -> "fill"
    [] at = "missing" -> "outer"
    [] at = "plot" /\ input \in {Some(s) : s \in PlotTypes} -> "plot"
    [] at = "plot" -> "outer"
    [] OTHER -> "outer"

NextPc(at, input) ==
  CASE at = "outer" /\ input = Some("missing") -> "missing"
    [] at = "outer" /\ input = Some("filter") -> "filter_col"
    [] at = "outer" /\ input = Some("plot") -> "plot"
    [] at = "outer" /\ input = Some("exit") -> "done"
    [] at = "outer" -> "outer"
    [] at = "missing" /\ input = Some("fill") -> "fill"
    [] at = "missing" -> "outer"
    [] at = "plot" /\ input = Some("exit") -> "outer"
    [] at = "plot" -> "plot"
    [] OTHER -> "outer"

(***************************************************************************)
(* Bookkeeping shared by every step: prev is the table before the step and *)
(* last is the prompt the step read its input at, the input, whether the   *)
(* handler's library call raised, and the filter column then in force.     *)
(* out and written hold what the operation in progress has emitted: out    *)
(* starts afresh with each input read at the outer or the plot prompt, and *)
(* written is the file the step wrote, if it wrote one.                    *)
(***************************************************************************)
Record(input, raised) ==
  /\ prev' = df
  /\ last' = [at |-> pc, input |-> input, raised |-> raised, col |-> column]

Table == df[1]

(***************************************************************************)
(* main, up to the first prompt: load_csv and the test of its result.      *)
(***************************************************************************)
Init ==
  /\ pc = "start"
  /\ df = None
  /\ column = None
  /\ out = <<>>
  /\ written = None
  /\ loaded = None
  /\ prev = None
  /\ last = [at |-> "none", input |-> None, raised |-> FALSE, col |-> None]

LoadNoFile ==
  /\ pc = "start"
  /\ df' = None
  /\ pc' = "done"
  /\ out' = <<"log.info", "log.info", "log.info">>
  /\ Record(None, FALSE)
  /\ loaded' = None
  /\ UNCHANGED <<column, written>>

LoadCsv ==
  /\ pc = "start"
  /\ \E f \in InputFiles :
       IF f.readable
       THEN /\ df' = Some(read_csv(f))
            /\ pc' = "outer"
            /\ out' = <<"log.info", "log.info", "log.info">>
            /\ Record(Some("test.csv"), FALSE)
       ELSE /\ df' = None
            /\ pc' = "done"
            /\ out' = <<"log.info", "log.info", "log.error", "box.error", "log.info">>
            /\ Record(Some("test.csv"), TRUE)
  /\ loaded' = df'
  /\ UNCHANGED <<column, written>>

(***************************************************************************)
(* The outer prompt of main and the handlers it dispatches to.  A handler  *)
(* whose library call sits in a try block can find the call raising        *)
(* (fault): the except branch then runs.                                   *)
(***************************************************************************)
DisplayDataInfo ==
  /\ pc = "outer"
  /\ \E fault \in BOOLEAN :
       /\ out' = (IF fault THEN <<"log.error", "box.error">>
                  ELSE <<"print", "print", "log.info">>)
       /\ Record(Some("info"), fault)
  /\ pc' = NextPc(pc, Some("info"))
  /\ written' = None
  /\ UNCHANGED <<df, column, loaded>>

DescribeData ==
  /\ pc = "outer"
  /\ \E fault \in BOOLEAN :
       /\ out' = (IF fault THEN <<"log.error", "box.error">>
                  ELSE <<"print", "box.info", "log.info">>)
       /\ Record(Some("summary"), fault)
  /\ pc' = NextPc(pc, Some("summary"))
  /\ written' = None
  /\ UNCHANGED <<df, column, loaded>>

SaveCanceled ==
  /\ pc = "outer"
  /\ out' = <<"log.info">>
  /\ Record(Some("save"), FALSE)
  /\ pc' = NextPc(pc, Some("save"))
  /\ written' = None
  /\ UNCHANGED <<df, column, loaded>>

SaveCsv ==
  /\ pc = "outer"
  /\ \E fault \in BOOLEAN :
       /\ written' = (IF fault THEN None ELSE Some(to_csv(Table)))
       /\ out' = (IF fault THEN <<"log.error", "box.error">>
                  ELSE <<"log.info", "box.info">>)
       /\ Record(Some("save"), fault)
  /\ pc' = NextPc(pc, Some("save"))
  /\ UNCHANGED <<df, column, loaded>>

\* missing, filter, plot: the handler's first statement is its own prompt.
EnterHandler ==
  /\ pc = "outer"
  /\ \E token \in {"missing", "filter", "plot"} :
       /\ pc' = NextPc(pc, Some(token))
       /\ Record(Some(token), FALSE)
  /\ out' = <<>>
  /\ written' = None
  /\ UNCHANGED <<df, column, loaded>>

Exit ==
  /\ pc = "outer"
  /\ pc' = NextPc(pc, Some("exit"))
  /\ out' = <<"log.info">>
  /\ Record(Some("exit"), FALSE)
  /\ written' = None
  /\ UNCHANGED <<df, column, loaded>>

InvalidAction ==
  /\ pc = "outer"
  /\ \E input \in OuterTyped :
       /\ input \notin {Some(s) : s \in OuterActions}
       /\ pc' = NextPc(pc, input)
       /\ Record(input, FALSE)
  /\ out' = <<"box.warning">>
  /\ written' = None
  /\ UNCHANGED <<df, column, loaded>>

(***************************************************************************)
(* handle_missing_data: the drop / fill / cancel prompt, then for fill the *)
(* fill-value prompt.  fillna(None) raises ValueError before it changes    *)
(* anything.                                                               *)
(***************************************************************************)
Drop ==
  /\ pc = "missing"
  /\ df' = Some(dropna(Table))
  /\ out' = out \o <<"log.info", "box.info">>
  /\ pc' = NextPc(pc, Some("drop"))
  /\ Record(Some("drop"), FALSE)
  /\ written' = None
  /\ UNCHANGED <<column, loaded>>

AskFill ==
  /\ pc = "missing"
  /\ pc' = NextPc(pc, Some("fill"))
  /\ Record(Some("fill"), FALSE)
  /\ written' = None
  /\ UNCHANGED <<df, column, out, loaded>>

CancelMissing ==
  /\ pc = "missing"
  /\ out' = out \o <<"log.info">>
  /\ pc' = NextPc(pc, Some("cancel"))
  /\ Record(Some("cancel"), FALSE)
  /\ written' = None
  /\ UNCHANGED <<df, column, loaded>>

InvalidMissing ==
  /\ pc = "missing"
  /\ \E input \in MissingTyped :
       /\ input \notin {Some(s) : s \in MissingActions}
       /\ pc' = NextPc(pc, input)
       /\ Record(input, FALSE)
  /\ out' = out \o <<"log.warning">>
  /\ written' = None
  /\ UNCHANGED <<df, column, loaded>>

FillResult(t, fill_value) ==
  IF fill_value = None THEN t ELSE fillna(t, fill_value[1])

Fill ==
  /\ pc = "fill"
  /\ \E fill_value \in ValueTyped :
       /\ df' = Some(FillResult(Table, fill_value))
       /\ out' = out \o (IF fill_value = None THEN <<"log.error", "box.error">>
                         ELSE <<"log.info", "box.info">>)
       /\ Record(fill_value, fill_value = None)
  /\ pc' = NextPc(pc, None)
  /\ written' = None
  /\ UNCHANGED <<column, loaded>>

(***************************************************************************)
(* filter_data: the column prompt, then the value prompt.                  *)
(***************************************************************************)
ColumnFound(t, col) == col # None /\ col[1] \in Range(t.columns)

FilterNoColumn ==
  /\ pc = "filter_col"
  /\ \E col \in ColumnTyped :
       /\ ~ColumnFound(Table, col)
       /\ Record(col, FALSE)
  /\ out' = out \o <<"box.error">>
  /\ pc' = "outer"
  /\ written' = None
  /\ UNCHANGED <<df, column, loaded>>

FilterColumn ==
  /\ pc = "filter_col"
  /\ \E col \in ColumnTyped :
       /\ ColumnFound(Table, col)
       /\ column' = col
       /\ Record(col, FALSE)
  /\ pc' = "filter_val"
  /\ written' = None
  /\ UNCHANGED <<df, out, loaded>>

FilterFaults == {"none", "compare", "print"}

\* Variant: the except branch returns filtered_df when it has been computed.
FilterReturn_keeps_filtered(t, col, value, fault) ==
  IF fault = "compare" THEN t ELSE boolean_index(t, col, value)

FilterReturn(t, col, value, fault) ==
  IF fault = "none" THEN boolean_index(t, col, value) ELSE t

FilterOut(fault) ==
  CASE fault = "none" -> <<"log.info", "print">>
    [] fault = "compare" -> <<"log.error", "box.error">>
    [] fault = "print" -> <<"log.info", "log.error", "box.error">>

FilterValue ==
  /\ pc = "filter_val"
  /\ \E value \in ValueTyped, fault \in FilterFaults :
       /\ df' = Some(FilterReturn(Table, column[1], value, fault))
       /\ out' = out \o FilterOut(fault)
       /\ Record(value, fault # "none")
  /\ column' = None
  /\ pc' = "outer"
  /\ written' = None
  /\ UNCHANGED loaded

(***************************************************************************)
(* user_plot_selection: the plot-type loop.  A plot call raises or not     *)
(* depending on the data and the plotting backend.                         *)
(***************************************************************************)
Plot ==
  /\ pc = "plot"
  /\ \E plot_type \in PlotTypes, fault \in BOOLEAN :
       /\ out' = (IF fault THEN <<"log.error", "box.error">> ELSE <<"chart">>)
       /\ pc' = NextPc(pc, Some(plot_type))
       /\ Record(Some(plot_type), fault)
  /\ written' = None
  /\ UNCHANGED <<df, column, loaded>>

PlotExit ==
  /\ pc = "plot"
  /\ pc' = NextPc(pc, Some("exit"))
  /\ out' = <<>>
  /\ Record(Some("exit"), FALSE)
  /\ written' = None
  /\ UNCHANGED <<df, column, loaded>>

InvalidPlot ==
  /\ pc = "plot"
  /\ \E input \in PlotTyped :
       /\ input \notin {Some(s) : s \in PlotInputs}
       /\ pc' = NextPc(pc, input)
       /\ Record(input, FALSE)
  /\ out' = <<"box.warning">>
  /\ written' = None
  /\ UNCHANGED <<df, column, loaded>>

Next ==
  \/ LoadNoFile
  \/ LoadCsv
  \/ DisplayDataInfo
  \/ DescribeData
  \/ SaveCanceled
  \/ SaveCsv
  \/ EnterHandler
  \/ Exit
  \/ InvalidAction
  \/ Drop
  \/ AskFill
  \/ CancelMissing
  \/ InvalidMissing
  \/ Fill
  \/ FilterNoColumn
  \/ FilterColumn
  \/ FilterValue
  \/ Plot
  \/ PlotExit
  \/ InvalidPlot

Spec == Init /\ [][Next]_vars

(***************************************************************************)
(* Vocabulary of the properties.                                           *)
(***************************************************************************)
Prev == prev[1]

Loaded == loaded[1]

Idx(t) == [i \in 1..Len(t.rows) |-> t.rows[i].idx]

Has(event) == \E i \in 1..Len(out) : out[i] = event

LastWas(at, token) == last.at = at /\ last.input = Some(token)

MarkerFree(r) == \A j \in 1..Len(r.cells) : r.cells[j] # NaN

SameShape(t, u) ==
  /\ Len(t.rows) = Len(u.rows)
  /\ Len(t.columns) = Len(u.columns)

\* C1: after any sequence of actions following a successful load, the column
\* set of the session's table equals the column set of the table as loaded.
C1_ColumnSetKept ==
  df # None => Range(Table.columns) = Range(Loaded.columns)

\* A filter that removed rows from a table that drop, fill or an earlier filter
\* had already changed.
C1_Witness ==
  /\ last.at = "filter_val"
  /\ ~last.raised
  /\ Prev # Loaded
  /\ Len(Table.rows) < Len(Prev.rows)
  /\ Len(Table.columns) = 2

\* C2: missing then drop leaves a table with no more rows than before, no
\* missing marker in any cell, and exactly the formerly marker-free rows.
C2_DropKeepsCompleteRows ==
  LastWas("missing", "drop") =>
    /\ Len(Table.rows) <= Len(Prev.rows)
    /\ \A i \in 1..Len(Table.rows) : MarkerFree(Table.rows[i])
    /\ Table.rows = SelectSeq(Prev.rows, MarkerFree)

\* A drop, on a table an earlier filter had cut down, that removed a row with
\* one missing cell and one present cell.
C2_Witness ==
  /\ LastWas("missing", "drop")
  /\ Len(Prev.rows) < Len(Loaded.rows)
  /\ \E i \in 1..Len(Prev.rows) :
       /\ ~MarkerFree(Prev.rows[i])
       /\ \E j \in 1..Len(Prev.columns) : Prev.rows[i].cells[j] # NaN

FillPost(literal_given) ==
  /\ SameShape(Table, Prev)
  /\ Table.columns = Prev.columns
  /\ \A i \in 1..Len(Table.rows) :
       /\ Table.rows[i].idx = Prev.rows[i].idx
       /\ \A j \in 1..Len(Table.columns) :
            LET before == Prev.rows[i].cells[j]
                after == Table.rows[i].cells[j]
            IN  /\ after # NaN
                /\ before = NaN => literal_given /\ after = Str(last.input[1])
                /\ before # NaN => after = before

\* C3 as claimed: for every value the fill-value prompt can return, fill leaves
\* every formerly missing cell holding that literal, no missing marker, every
\* other cell unchanged, and the row and column counts as before.
C3_FillAnyValue ==
  last.at = "fill" => FillPost(last.input # None)

\* C3 as amended: for every string the fill-value prompt returns, fill leaves
\* every formerly missing cell holding that string, no missing marker, every
\* other cell unchanged, and the row and column counts as before; when the
\* prompt is cancelled the fill fails with an error and the table is unchanged.
C3_FillString ==
  /\ last.at = "fill" /\ last.input # None => FillPost(TRUE)
  /\ last.at = "fill" /\ last.input = None =>
       df = prev /\ last.raised /\ Has("box.error") /\ Has("log.error")

\* A fill with a string that put the string into a column holding a number.
C3_Witness ==
  /\ last.at = "fill"
  /\ last.input # None
  /\ \E i, k \in 1..Len(Table.rows), j \in 1..Len(Table.columns) :
       /\ Prev.rows[i].cells[j] = NaN
       /\ IsNum(Table.rows[k].cells[j])

EqualsEntered(r, t, col, value) ==
  /\ value # None
  /\ \E j \in 1..Len(t.columns) :
       t.columns[j] = col /\ r.cells[j] = Str(value[1])

Matching(t, col, value) ==
  LET Keep(r) == EqualsEntered(r, t, col, value)
  IN  SelectSeq(t.rows, Keep)

\* C4: filter on an existing column replaces the table by exactly the rows of
\* the previous table whose cell in that column equals the entered value, in
\* their order; on a column that does not exist (or a cancelled column prompt)
\* an error is reported, no value is prompted for and the table is unchanged.
\* (The case where the filtering itself raises is C7's.)
C4_FilterExact ==
  /\ last.at = "filter_val" /\ ~last.raised =>
       /\ Table.columns = Prev.columns
       /\ Table.rows = Matching(Prev, last.col[1], last.input)
  /\ last.at = "filter_col" =>
       IF last.input # None /\ last.input[1] \in Range(Prev.columns)
       THEN pc = "filter_val" /\ df = prev
       ELSE pc = "outer" /\ df = prev /\ Has("box.error")

\* A filter on a column holding a number, a string and the entered string,
\* which kept some rows and removed others.
C4_Witness ==
  /\ last.at = "filter_val"
  /\ ~last.raised
  /\ 0 < Len(Table.rows)
  /\ Len(Table.rows) < Len(Prev.rows)
  /\ \E i \in 1..Len(Prev.rows), j \in 1..Len(Prev.columns) :
       Prev.columns[j] = last.col[1] /\ IsNum(Prev.rows[i].cells[j])

Recognized(at) ==
  CASE at = "outer" -> {Some(s) : s \in OuterActions}
    [] at = "missing" -> {Some(s) : s \in MissingActions}
    [] at = "plot" -> {Some(s) : s \in PlotInputs}

Unrecognized(at) == last.at = at /\ last.input \notin Recognized(at)

\* C5 as claimed: at the outer prompt, the missing-data prompt and the
\* plot-type prompt, an unrecognized token leaves the table unchanged and the
\* next prompt shown is that same prompt.
C5_SamePromptEverywhere ==
  \A at \in {"outer", "missing", "plot"} :
    Unrecognized(at) => df = prev /\ pc = at

\* C5 as amended: an unrecognized token leaves the table unchanged at all three
\* prompts; the next prompt is the same prompt at the outer and the plot-type
\* prompt, and the outer action prompt after the missing-data prompt.
C5_SamePromptOuterAndPlot ==
  /\ \A at \in {"outer", "plot"} : Unrecognized(at) => df = prev /\ pc = at
  /\ Unrecognized("missing") => df = prev /\ pc = "outer"

\* An unrecognized token at the plot-type prompt of a session whose table a
\* drop, fill or filter has changed.
C5_Witness ==
  /\ Unrecognized("plot")
  /\ last.input = Some("bogus")
  /\ df # loaded

Canon(c) ==
  IF c = NaN THEN <<"missing">>
  ELSE IF IsNum(c) THEN <<"value", IntText(c.num)>>
  ELSE IF IsNumText(c.str) THEN <<"value", IntText(ParseNum(c.str))>>
  ELSE <<"value", c.str>>

\* C6: saving the session's table and loading the written file yields the same
\* column set, the same number of rows and the same cell values up to type
\* formatting; a cell that was not missing before saving is not missing after.
C6_RoundTrip ==
  written # None =>
    LET back == read_csv(written[1])
    IN  /\ Range(back.columns) = Range(Table.columns)
        /\ Len(back.rows) = Len(Table.rows)
        /\ \A i \in 1..Len(Table.rows), j \in 1..Len(Table.columns) :
             Canon(back.rows[i].cells[j]) = Canon(Table.rows[i].cells[j])

Contained == {"start", "fill", "filter_val"}

ContainedOuter == {Some("info"), Some("summary"), Some("save")}

\* C7: a failure raised in load, save, info, summary, fill or filter is caught
\* in its handler and reported by an error box and an error log line; in the
\* loop the next step is the outer prompt with the table as before the failed
\* action, and for load no table is available.
C7_FailureContained ==
  last.raised /\ (last.at \in Contained \/
                  (last.at = "outer" /\ last.input \in ContainedOuter)) =>
    /\ Has("box.error")
    /\ Has("log.error")
    /\ last.at = "start" => df = None
    /\ last.at # "start" => pc = "outer" /\ df = prev

\* A filter whose selection would have removed a row, and which raised.
C7_Witness ==
  /\ last.at = "filter_val"
  /\ last.raised
  /\ Len(Matching(Table, last.col[1], last.input)) < Len(Table.rows)
  /\ 0 < Len(Matching(Table, last.col[1], last.input))

Visible == Has("box.info") \/ Has("box.warning") \/ Has("box.error")
             \/ Has("print") \/ Has("chart")

Logged == Has("log.info") \/ Has("log.warning") \/ Has("log.error")

\* The operations C8 lists, at the moment each has completed.
Completed ==
  \/ last.at = "outer" /\ last.input \notin
       {Some("missing"), Some("filter"), Some("plot"), Some("exit")}
  \/ last.at = "missing" /\ last.input # Some("fill")
  \/ last.at = "fill"
  \/ last.at = "filter_col" /\ pc = "outer"
  \/ last.at = "filter_val"
  \/ last.at = "plot" /\ last.input # Some("exit")

\* C8: every completed action (info, summary, missing, filter, save, each plot
\* kind, each invalid token) has produced at least one visible notification
\* and at least one log line before the next prompt is shown.
C8_BothChannels == Completed => Visible /\ Logged

Prompts == {"outer", "missing", "fill", "filter_col", "filter_val", "plot"}

\* C9: the session ends only when load yields no table (then no prompt is ever
\* shown) or when exit is entered at the outer prompt; exit at the plot-type
\* prompt returns to the outer prompt, and every other input leads to a prompt.
C9_TwoWaysToEnd ==
  /\ pc = "done" => \/ last.at = "start" /\ df = None
                    \/ LastWas("outer", "exit")
  /\ last.at = "start" /\ df = None => pc = "done"
  /\ LastWas("outer", "exit") => pc = "done"
  /\ LastWas("plot", "exit") => pc = "outer"
  /\ pc # "start" /\ ~LastWas("outer", "exit") /\ df # None => pc \in Prompts

\* exit entered at the plot-type prompt, which left the session at the outer
\* prompt.
C9_Witness ==
  /\ LastWas("plot", "exit")
  /\ pc = "outer"

IsSubsequence(small, big) ==
  /\ \A i \in 1..Len(small) : \E k \in 1..Len(big) : small[i] = big[k]
  /\ \A i, k \in 1..Len(small) : i < k => small[i] < small[k]

\* C10: the rows of the session's table are a subsequence, by row label, of
\* the rows as loaded, each still the loaded row but for filled cells; the row
\* count never grows, and every step other than drop and filter leaves the
\* rows that were there.
C10_RowsSubsequence ==
  df # None =>
    /\ IsSubsequence(Idx(Table), Idx(Loaded))
    /\ Len(Table.rows) <= Len(Loaded.rows)
    /\ \A i \in 1..Len(Table.rows), j \in 1..Len(Table.columns) :
         LET was == Loaded.rows[Table.rows[i].idx + 1].cells[j]
         IN  was # NaN => Table.rows[i].cells[j] = was
    /\ prev # None /\ ~LastWas("missing", "drop") /\ last.at # "filter_val" =>
         Idx(Table) = Idx(Prev)

\* A drop that removed the first row and kept a later one, followed by a
\* filter that kept it too.
C10_Witness ==
  /\ last.at = "filter_val"
  /\ Len(Table.rows) > 0
  /\ Table.rows[1].idx > 0
  /\ Len(Prev.rows) < Len(Loaded.rows)

====
